---- MODULE Spec2Model ----
(***************************************************************************)
(* Intent monitoring and recovery engine of src/intent_monitor.py          *)
(* (class IntentMonitor): the monitor thread (_monitoring_loop) and the    *)
(* recovery thread (_recovery_loop) over the shared intent status map,     *)
(* violation history, recovery queue and attempt counters.  The two        *)
(* threads take no lock, so each statement that touches shared state is a  *)
(* step of its own and the steps of the two threads interleave freely.     *)
(***************************************************************************)
EXTENDS Integers, Sequences, FiniteSets, TLC

\* ------------------------------------------------------------------ bounds
\* Monitor ticks explored (the clock that stamps violations stops there).
MaxTicks == 3
\* Monitor ticks explored by SpecDeep, whose environment is narrower.
MaxDeepTicks == 5

\* Monitor ticks explored by SpecStop and by SpecRegistry.
MaxStopTicks == 3
MaxRegistryTicks == 2
\* Measurements explored by SpecMetric.
MaxSamples == 12
\* Largest sample value explored by SpecTrend.
MaxValue == 12
MaxCalls == 4
MaxLifeTicks == 3
MaxTime == 6
\* Hosts of the network, and passes of the ResourceMonitor, of SpecExecuter.
MaxHosts == 2
MaxPasses == 4
\* Length of the violation history explored by SpecReport.
MaxViolations == 12
\* Connections of a topology, and derivations from it, explored by SpecParse.
MaxConnections == 2
MaxDerivations == 2

\* ------------------------------------------------------- program constants
\* self.max_recovery_attempts = 3
max_recovery_attempts == 3
\* deque(maxlen=10), the capacity of IntentMetric.values
maxlen == 10
\* self.violations[-10:], the violations a report carries
report_violations == 10

\* --------------------------------------------------------------- the types
\* class IntentStatus; NoStatus is a key missing from self.intent_status.
IntentStatus == {"SATISFIED", "VIOLATED", "RECOVERING", "UNRECOVERABLE", "UNKNOWN"}
NoStatus == "NONE"

\* class IntentType
IntentType == {"CONNECTIVITY", "BANDWIDTH", "DELAY", "PACKET_LOSS", "JITTER",
               "CPU_USAGE", "MEMORY_USAGE", "LINK_UTILIZATION"}

\* The keys of the dict _initialize_recovery_strategies returns.
initialize_recovery_strategies ==
    {"CONNECTIVITY", "BANDWIDTH", "DELAY", "PACKET_LOSS", "CPU_USAGE",
     "MEMORY_USAGE", "LINK_UTILIZATION"}

\* self.intents as _parse_intents builds it, in insertion order, for the
\* topology  connections = [{ENDPOINTS: [h1, s1], PARAMS: {bandwidth: 10,
\* jitter: 5ms}}], hosts = [{id: h1, cpu: 0.5}]: each with its type, its
\* target (endpoints or host) and its expected value as parsed.
IntentOrder == <<"conn_h1-s1", "bw_h1-s1", "jitter_h1-s1", "cpu_h1">>
IntentIds == {IntentOrder[k] : k \in 1..Len(IntentOrder)}
intents ==
    [id \in IntentIds |->
        CASE id = "conn_h1-s1"   -> [type |-> "CONNECTIVITY", component |-> "h1-s1",
                                     expected |-> "True"]
          [] id = "bw_h1-s1"     -> [type |-> "BANDWIDTH",    component |-> "h1-s1",
                                     expected |-> "10.0"]
          [] id = "jitter_h1-s1" -> [type |-> "JITTER",       component |-> "h1-s1",
                                     expected |-> "5.0"]
          [] OTHER               -> [type |-> "CPU_USAGE",    component |-> "h1",
                                     expected |-> "0.5"]]

\* A position of rec_action when the recovery thread holds no violation.
NoAction == [intent_id |-> "none", intent_type |-> "none", timestamp |-> 0]

\* Types a caller may register without a recovery function (Type Registry).
RegisterTypes == {"BANDWIDTH"}

\* Types a plugin registers: the keys of JitterMonitorPlugin's
\* get_check_functions and get_recovery_functions, and a built-in type a
\* later plugin overrides.
PluginTypes == {"JITTER", "BANDWIDTH"}

VARIABLES
    monitoring_active,   \* self.monitoring_active
    recovery_enabled,    \* self.recovery_enabled
    recovery_strategies, \* the types that are keys of self.recovery_strategies
    intent_status,       \* self.intent_status
    violations,          \* self.violations
    recovery_actions,    \* self.recovery_actions (the recovery queue)
    recovery_attempts,   \* self.recovery_attempts, read with .get(key, 0)
    clock,               \* datetime.now(), advanced once per monitor tick
    monPc,               \* where the monitor thread is
    mon_idx,             \* _check_all_intents: position in self.intents
    mon_violations,      \* _check_all_intents: the local list `violations`
    mon_h,               \* _handle_violations: position in that list
    mon_can,             \* the value `recovery_enabled and _can_recover(v)` took
    recPc,               \* where the recovery thread is
    rec_action,          \* _recovery_loop: the local `action`
    \* history variables (observations, never read by an action's guard)
    probe,               \* the outcome of each intent's most recent probe
    checked,             \* intents evaluated so far in the current tick
    raised,              \* the intent whose handling raised in the current tick
    last_outcome,        \* how each pair's most recent recovery attempt ended
    streak,              \* consecutive failed attempts of each pair
    exhausted_at,        \* 0, or 1 + the tick in which streak reached the maximum
    scen,                \* per intent: violated -> enqueued -> recovered -> confirmed
    registered_checks,   \* types a check function was registered for
    mon_notes,           \* what _notify_operator printed for the monitor in this tick
    rec_note,            \* the intent the latest _execute_recovery notified about
    \* state of the pure parts, each explored by a specification of its own
    values,              \* IntentMetric.values of one intent
    samples,             \* history: every measurement added to that metric
    document,            \* the file export_report wrote, as json.dump renders it
    topology,            \* the Topology handed to the constructor
    parsed,              \* what the constructor's _parse_intents call produced
    trend,               \* what the latest get_trend call returned
    self_intents,        \* self.intents
    stop_returned,       \* stop_monitoring has returned to its caller
    \* state of the other lifecycles, each explored by a specification of its own
    lifecycle,           \* IntentMonitor under repeated start/stop: flag and loops
    manager,             \* MonitoringManager._monitoring_loop (teste_claude.py)
    executer             \* Executer.executeTopology and its ResourceMonitor (jmp)

vars == <<monitoring_active, recovery_enabled, recovery_strategies, intent_status,
          violations, recovery_actions, recovery_attempts, clock, monPc, mon_idx,
          mon_violations, mon_h, mon_can, recPc, rec_action, probe, checked, raised,
          last_outcome, streak, exhausted_at, scen, registered_checks,
          mon_notes, rec_note, values, samples, document, topology, parsed,
          trend, self_intents, stop_returned, lifecycle, manager, executer>>

monVars == <<monPc, mon_idx, mon_violations, mon_h, mon_can>>
ghostMon == <<probe, checked, raised>>
ghostRec == <<last_outcome, streak, exhausted_at>>
noteVars == <<mon_notes, rec_note>>
pureVars == <<values, samples, document, topology, parsed, trend>>
otherVars == <<stop_returned, lifecycle, manager, executer>>

\* ----------------------------------------------------------- pure helpers
\* How many entries of sequence q belong to intent id.
Count(id, q) == Cardinality({k \in 1..Len(q) : q[k].intent_id = id})

\* key = f"{violation.intent_id}_{violation.intent_type}"
Key(v) == <<v.intent_id, v.intent_type>>
KeyOf(id) == <<id, intents[id].type>>
Keys == {KeyOf(id) : id \in IntentIds}

\* What a probe can report for a type: "ok" the measurement meets the intent,
\* "bad" it does not, "error" the measurement raised or could not be read,
\* "unhealthy" _check_shell_health found the probing node's shell
\* unresponsive, "none" no measurement is made.  (_check_bandwidth makes no
\* shell check; an `ip link show` that raises makes _check_interface_status
\* return False, which is its "bad".)
ProbeOutcomes(type) ==
    CASE type \in {"CONNECTIVITY", "DELAY", "PACKET_LOSS"} ->
            {"ok", "bad", "error", "unhealthy"}
      [] type = "BANDWIDTH" -> {"ok", "bad", "error"}
      [] type = "CPU_USAGE" -> {"ok"}
      [] type = "MEMORY_USAGE" -> {"error"}
      [] OTHER -> {"none"}

\* The types _check_intent has a branch for.
CheckedTypes == {"CONNECTIVITY", "BANDWIDTH", "DELAY", "PACKET_LOSS", "CPU_USAGE",
                 "MEMORY_USAGE"}

\* A _check_intent whose fall-through reports a violation.
check_intent_else_violated(type, p) ==
    CASE type \in {"CONNECTIVITY", "BANDWIDTH", "DELAY", "PACKET_LOSS"} ->
            (CASE p = "ok"  -> "SATISFIED"
               [] p = "bad" -> "VIOLATED"
               [] p = "unhealthy" /\ type = "CONNECTIVITY" -> "VIOLATED"
               [] OTHER     -> "UNKNOWN")
      [] type = "CPU_USAGE" -> "SATISFIED"
      [] type = "MEMORY_USAGE" -> "UNKNOWN"
      [] OTHER -> "VIOLATED"

\* _check_intent: the status the type's check returns for a probe outcome.
\* _check_cpu_usage returns SATISFIED whatever the host does; in
\* _check_memory_usage the call of self._ncheck_shell_health raises
\* AttributeError into its own `except`, so the result is UNKNOWN; a type
\* with no branch falls to `return IntentStatus.UNKNOWN, None`.  On an
\* unresponsive shell _check_connectivity returns VIOLATED, while
\* _check_delay and _check_packet_loss return UNKNOWN.
check_intent(type, p) ==
    CASE type \in {"CONNECTIVITY", "BANDWIDTH", "DELAY", "PACKET_LOSS"} ->
            (CASE p = "ok"  -> "SATISFIED"
               [] p = "bad" -> "VIOLATED"
               [] p = "unhealthy" /\ type = "CONNECTIVITY" -> "VIOLATED"
               [] OTHER     -> "UNKNOWN")
      [] type = "CPU_USAGE" -> "SATISFIED"
      [] type = "MEMORY_USAGE" -> "UNKNOWN"
      [] OTHER -> "UNKNOWN"

\* The IntentViolation that _check_all_intents builds.
IntentViolation(id, now) ==
    [intent_id |-> id, intent_type |-> intents[id].type, timestamp |-> now]

\* A _can_recover that only counts attempts.
can_recover_attempts_only(v, attempts, strategies) ==
    attempts[Key(v)] < max_recovery_attempts

\* _can_recover, over the counters and strategies it reads.
can_recover(v, attempts, strategies) ==
    IF attempts[Key(v)] >= max_recovery_attempts
    THEN FALSE
    ELSE v.intent_type \in strategies

\* What calling a recovery strategy can do: return True, return False, or
\* raise.  (The strategies of this file catch Exception around their network
\* calls; the `except` of _recovery_loop is what meets an exception that
\* leaves a strategy all the same.)
StrategyOutcomes == {"success", "failure", "raise"}

\* ---------------------------------------------------------- IntentMetric
\* What _check_intent can return as actual_value: a number, or None (a value
\* that is not an int or a float is treated alike).
MeasuredValues == {10, 12}
Actuals == {[numeric |-> TRUE, value |-> x] : x \in MeasuredValues}
               \cup {[numeric |-> FALSE, value |-> 0]}

\* A deque that never evicts.
add_measurement_no_evict(q, value) == Append(q, value)

\* IntentMetric.add_measurement on self.values: deque.append, which on a
\* full deque(maxlen=10) discards the item at the opposite (left) end.
add_measurement(q, value) ==
    IF Len(q) >= maxlen THEN Append(Tail(q), value) ELSE Append(q, value)

\* A get_trend that compares the oldest sample held with the newest.
get_trend_from_oldest(q) ==
    IF Len(q) < 3 THEN "STABLE"
    ELSE CASE q[Len(q)] * 10 > q[1] * 11 -> "DEGRADING"
           [] q[Len(q)] * 10 < q[1] * 9  -> "IMPROVING"
           [] OTHER                      -> "STABLE"

\* A get_trend that answers STABLE only under two samples.
get_trend_under_two(q) ==
    IF Len(q) < 2 THEN "STABLE"
    ELSE LET first == q[IF Len(q) > 3 THEN Len(q) - 2 ELSE 1]
             last  == q[Len(q)]
         IN CASE last * 10 > first * 11 -> "DEGRADING"
              [] last * 10 < first * 9  -> "IMPROVING"
              [] OTHER                  -> "STABLE"

\* IntentMetric.get_trend: recent = list(self.values)[-3:], compared as
\* recent[-1] > recent[0] * 1.1 and recent[-1] < recent[0] * 0.9 (in tenths).
get_trend(q) ==
    IF Len(q) < 3 THEN "STABLE"
    ELSE LET first == q[IF Len(q) > 3 THEN Len(q) - 2 ELSE 1]
             last  == q[Len(q)]
         IN CASE last * 10 > first * 11 -> "DEGRADING"
              [] last * 10 < first * 9  -> "IMPROVING"
              [] OTHER                  -> "STABLE"

\* _check_all_intents, the metric of one intent in one tick: `if actual_value
\* is not None and isinstance(actual_value, (int, float))` then
\* add_measurement(actual_value).
record_metric(actual) ==
    /\ Len(samples) < MaxSamples
    /\ IF actual.numeric
       THEN /\ values' = add_measurement(values, actual.value)
            /\ samples' = Append(samples, actual.value)
       ELSE UNCHANGED <<values, samples>>
    /\ UNCHANGED <<monitoring_active, recovery_enabled, recovery_strategies,
                   intent_status, violations, recovery_actions, recovery_attempts,
                   clock, monVars, recPc, rec_action, ghostMon, ghostRec, scen,
                   registered_checks, noteVars, document, topology, parsed>>
    /\ UNCHANGED <<trend, self_intents, otherVars>>

NextMetric == \E actual \in Actuals : record_metric(actual)

\* Histories whose trend is read: three or four samples of 0..MaxValue.
TrendValues == 0..MaxValue
TrendLengths == {3, 4}
TrendHistories == UNION {[1..n -> TrendValues] : n \in TrendLengths}

\* A call of IntentMetric.get_trend on the history held.
read_trend ==
    /\ trend = "none"
    /\ trend' = get_trend(values)
    /\ UNCHANGED <<monitoring_active, recovery_enabled, recovery_strategies,
                   intent_status, violations, recovery_actions, recovery_attempts,
                   clock, monVars, recPc, rec_action, ghostMon, ghostRec, scen,
                   registered_checks, noteVars, values, samples, document, topology,
                   parsed, self_intents, otherVars>>

NextTrend == read_trend

\* -------------------------------------------------------------- Reporter
\* No file written yet.
NoDocument == [written |-> FALSE]

\* The status maps the monitor can hold: _check_all_intents adds the keys in
\* the order of self.intents, each with a status its check can return.
ReachableStatus ==
    {st \in [IntentIds -> IntentStatus \cup {NoStatus}] :
        /\ \A k \in 1..Len(IntentOrder) :
              st[IntentOrder[k]] # NoStatus =>
                 /\ \E p \in ProbeOutcomes(intents[IntentOrder[k]].type) :
                       st[IntentOrder[k]] = check_intent(intents[IntentOrder[k]].type, p)
                 /\ \A j \in 1..k : st[IntentOrder[j]] # NoStatus}

\* The violation history after the connectivity intent failed in k ticks.
ViolationHistory(k) == [i \in 1..k |-> IntentViolation("conn_h1-s1", i)]

\* get_intent_report: the counts per status over self.intent_status, `total`
\* = len(self.intents), the intents that have a status, and the last ten
\* violations.
get_intent_report(status, viols) ==
    [summary |-> [st \in IntentStatus \cup {"total"} |->
                     IF st = "total" THEN Cardinality(IntentIds)
                     ELSE Cardinality({id \in IntentIds : status[id] = st})],
     intents |-> [id \in {i \in IntentIds : status[i] # NoStatus} |-> status[id]],
     violations |-> SubSeq(viols,
                           IF Len(viols) > report_violations
                           THEN Len(viols) - report_violations + 1 ELSE 1,
                           Len(viols))]

\* The decimal digits json.dump writes for a non-negative int below 100.
Digit(d) == CASE d = 0 -> "0" [] d = 1 -> "1" [] d = 2 -> "2" [] d = 3 -> "3"
              [] d = 4 -> "4" [] d = 5 -> "5" [] d = 6 -> "6" [] d = 7 -> "7"
              [] d = 8 -> "8" [] OTHER -> "9"

\* A writer that renders every number as 0.
render_int_zero(n) == <<"0">>

render_int(n) == IF n < 10 THEN <<Digit(n)>> ELSE <<Digit(n \div 10), Digit(n % 10)>>

\* The int json.load reads from decimal digits.
DigitValue(c) == CHOOSE d \in 0..9 : Digit(d) = c
RECURSIVE parse_int(_)
parse_int(text) ==
    IF text = <<>> THEN 0
    ELSE 10 * parse_int(SubSeq(text, 1, Len(text) - 1)) + DigitValue(text[Len(text)])

\* json.dump(report, f, indent=2, default=str): numbers as digits, enum
\* values as their strings, the list item by item.
json_dump(report) ==
    [written |-> TRUE,
     summary |-> [k \in DOMAIN report.summary |-> render_int(report.summary[k])],
     intents |-> report.intents,
     violations |-> [i \in 1..Len(report.violations) |->
                        [intent_id   |-> report.violations[i].intent_id,
                         intent_type |-> report.violations[i].intent_type,
                         timestamp   |-> render_int(report.violations[i].timestamp)]]]

\* json.load of the written file.
json_load(doc) ==
    [summary |-> [k \in DOMAIN doc.summary |-> parse_int(doc.summary[k])],
     intents |-> doc.intents,
     violations |-> doc.violations]

\* export_report: the report of the moment, written to a file of the log
\* directory.
export_report ==
    /\ document = NoDocument
    /\ document' = json_dump(get_intent_report(intent_status, violations))
    /\ UNCHANGED <<monitoring_active, recovery_enabled, recovery_strategies,
                   intent_status, violations, recovery_actions, recovery_attempts,
                   clock, monVars, recPc, rec_action, ghostMon, ghostRec, scen,
                   registered_checks, noteVars, values, samples, topology, parsed>>
    /\ UNCHANGED <<trend, self_intents, otherVars>>

NextReport == export_report

\* ---------------------------------------------------------- Intent Model
\* The topology self.intents (IntentOrder above) is derived from.
Topology0 ==
    [connections |-> <<[ENDPOINTS |-> <<"h1", "s1">>, bandwidth |-> "10",
                        jitter |-> "5ms"]>>,
     hosts |-> <<[id |-> "h1", cpu |-> TRUE]>>]

\* Topologies handed to the constructor: connections between hosts h1, h2 and
\* switch s1, one of them with a single endpoint; PARAMS with or without a
\* bandwidth (a number's text, or a text float() rejects) and a jitter.
EndpointChoices ==
    {<<"h1", "s1">>, <<"h2", "s1">>, <<"h1", "h2">>, <<"h2", "h1">>, <<"h1">>}
ConnEntries ==
    [ENDPOINTS : EndpointChoices, bandwidth : {"absent", "10", "fast"},
     jitter : {"absent", "5ms"}]
HostLists ==
    {<<[id |-> "h1", cpu |-> TRUE]>>,
     <<[id |-> "h1", cpu |-> TRUE], [id |-> "h2", cpu |-> FALSE]>>}
Topologies ==
    [connections : UNION {[1..n -> ConnEntries] : n \in 0..MaxConnections},
     hosts : HostLists]

\* No derivation made yet.
NotParsed == <<>>

\* float(text): TRUE when it raises ValueError.
float_raises(text) == text \notin {"10", "5"}

\* `intents[key] = {...}` on a dict: a new key goes last, a key already there
\* keeps its place and takes the new value.
dict_set(d, entry) ==
    IF \E k \in 1..Len(d) : d[k].id = entry.id
    THEN [k \in 1..Len(d) |-> IF d[k].id = entry.id THEN entry ELSE d[k]]
    ELSE Append(d, entry)

\* One iteration of `for conn in self.topology.connections`: nothing for a
\* connection without exactly two endpoints; else the connectivity intent,
\* and the bandwidth and jitter intents if PARAMS has them.
\* float(params['bandwidth']) raises on a text that is no number.
parse_connection(acc, conn) ==
    IF acc.raised \/ Len(conn.ENDPOINTS) # 2 THEN acc
    ELSE LET ends    == conn.ENDPOINTS
             conn_id == ends[1] \o "-" \o ends[2]
             d1 == dict_set(acc.intents,
                      [id |-> "conn_" \o conn_id, type |-> "CONNECTIVITY",
                       endpoints |-> ends])
             d2 == IF conn.bandwidth = "absent" THEN d1
                   ELSE dict_set(d1, [id |-> "bw_" \o conn_id, type |-> "BANDWIDTH",
                                      endpoints |-> ends])
             d3 == IF conn.jitter = "absent" THEN d2
                   ELSE dict_set(d2, [id |-> "jitter_" \o conn_id, type |-> "JITTER",
                                      endpoints |-> ends])
         IN IF conn.bandwidth # "absent" /\ float_raises(conn.bandwidth)
            THEN [raised |-> TRUE, intents |-> <<>>]
            ELSE [raised |-> FALSE, intents |-> d3]

\* One iteration of `for host in self.topology.hosts`.
parse_host(acc, host) ==
    IF acc.raised \/ ~host.cpu THEN acc
    ELSE [raised |-> FALSE,
          intents |-> dict_set(acc.intents,
                         [id |-> "cpu_" \o host.id, type |-> "CPU_USAGE",
                          endpoints |-> <<host.id>>])]

RECURSIVE parse_connections(_, _, _)
parse_connections(acc, conns, k) ==
    IF k > Len(conns) THEN acc
    ELSE parse_connections(parse_connection(acc, conns[k]), conns, k + 1)

RECURSIVE parse_hosts(_, _, _)
parse_hosts(acc, hosts, k) ==
    IF k > Len(hosts) THEN acc
    ELSE parse_hosts(parse_host(acc, hosts[k]), hosts, k + 1)

\* _parse_intents: the dict it returns, in insertion order, or the exception
\* that leaves it (and __init__).
parse_intents(topo) ==
    parse_hosts(parse_connections([raised |-> FALSE, intents |-> <<>>],
                                  topo.connections, 1),
                topo.hosts, 1)

\* IntentMonitor(topology): __init__ calls self._parse_intents().
derive_intents ==
    /\ Len(parsed) < MaxDerivations
    /\ parsed' = Append(parsed, parse_intents(topology))
    /\ UNCHANGED <<monitoring_active, recovery_enabled, recovery_strategies,
                   intent_status, violations, recovery_actions, recovery_attempts,
                   clock, monVars, recPc, rec_action, ghostMon, ghostRec, scen,
                   registered_checks, noteVars, values, samples, document, topology>>
    /\ UNCHANGED <<trend, self_intents, otherVars>>

NextParse == derive_intents

\* ------------------------------------------------------------------- Init
\* The pure parts before anything was measured, exported or derived.
InitPure ==
    /\ values = <<>>
    /\ samples = <<>>
    /\ document = NoDocument
    /\ topology = Topology0
    /\ parsed = NotParsed
    /\ trend = "none"

\* ------------------------------------ initial states of the lifecycles
\* The monitor under any sequence of start_monitoring and stop_monitoring
\* calls made one after another by its owner.  A loop is followed only
\* through its positions: asleep (before `while self.monitoring_active` is
\* tested), inside a tick, or exited.  `monitors` and `recoveries` hold every
\* thread ever started, in order; monitor_thread and recovery_thread are the
\* positions self.monitor_thread and self.recovery_thread refer to (0: None).
Lifecycle0 ==
    [active |-> FALSE, monitors |-> <<>>, recoveries |-> <<>>,
     monitor_thread |-> 0, recovery_thread |-> 0,
     caller |-> "idle", calls |-> 0, ticks |-> 0]

\* MonitoringManager (teste_claude.py) with its loop thread just started:
\* plugin_timers = {plugin: time.time()}.  `now` is time.time() in seconds,
\* current_time the loop's local, idx the position in monitoring_plugins,
\* last_attempt the time of each plugin's latest collect_metric call (-1:
\* none yet).
Plugins == <<"latency", "jitter">>
get_collection_interval(plugin) == IF plugin = "latency" THEN 2 ELSE 3
Manager0 ==
    [pc |-> "test", idx |-> 0, now |-> 0, current_time |-> 0,
     plugin_timers |-> [k \in 1..Len(Plugins) |-> 0],
     last_attempt |-> [k \in 1..Len(Plugins) |-> -1],
     last_outcome |-> "none"]

\* Executer.executeTopology (jmp/Executer.py) after MONITOR_THREAD.start(),
\* with the CLI open: `main` is where executeTopology is, `thread` where
\* ResourceMonitor.run is, host the position in self.network.hosts, stopped
\* the Event, passes the passes begun; at_signal is where the thread was
\* when stop() was called and late whether a host command was issued after
\* NETWORK.stop() had begun.
Executer0 ==
    [main |-> "cli", thread |-> "test", host |-> 0, stopped |-> FALSE,
     passes |-> 0, last_cmd |-> "none", at_signal |-> "none", late |-> FALSE]

\* The monitor after __init__, but for its status map and violation history.
InitControl ==
    /\ monitoring_active = FALSE
    /\ recovery_enabled = TRUE
    /\ recovery_strategies = initialize_recovery_strategies
    /\ recovery_actions = <<>>
    /\ recovery_attempts = [k \in Keys |-> 0]
    /\ clock = 0
    /\ monPc = "none"
    /\ mon_idx = 0
    /\ mon_violations = <<>>
    /\ mon_h = 0
    /\ mon_can = FALSE
    /\ recPc = "none"
    /\ rec_action = NoAction
    /\ probe = [id \in IntentIds |-> "none"]
    /\ checked = {}
    /\ raised = "none"
    /\ last_outcome = [k \in Keys |-> "none"]
    /\ streak = [k \in Keys |-> 0]
    /\ exhausted_at = [k \in Keys |-> 0]
    /\ scen = [id \in IntentIds |-> "none"]
    /\ registered_checks = {}
    /\ mon_notes = <<>>
    /\ rec_note = "none"
    /\ self_intents = intents
    /\ stop_returned = FALSE
    /\ lifecycle = Lifecycle0
    /\ manager = Manager0
    /\ executer = Executer0

\* The monitor after __init__.
InitMonitor ==
    /\ InitControl
    /\ intent_status = [id \in IntentIds |-> NoStatus]
    /\ violations = <<>>

Init == InitMonitor /\ InitPure

\* A monitor about to export a report: any status map it can hold, with a
\* violation history of any length up to MaxViolations (a history that is
\* not empty comes after a whole tick, so every intent has a status).
InitReport ==
    /\ InitControl
    /\ InitPure
    /\ intent_status \in ReachableStatus
    /\ \E k \in 0..MaxViolations :
          /\ violations = ViolationHistory(k)
          /\ k > 0 => \A id \in IntentIds : intent_status[id] # NoStatus

\* A metric whose trend is about to be read, with any history of TrendHistories.
InitTrend ==
    /\ InitMonitor
    /\ values \in TrendHistories
    /\ samples = values
    /\ document = NoDocument
    /\ topology = Topology0
    /\ parsed = NotParsed
    /\ trend = "none"

\* A constructor about to derive the intents of any of the topologies.
InitParse ==
    /\ InitMonitor
    /\ values = <<>>
    /\ samples = <<>>
    /\ document = NoDocument
    /\ topology \in Topologies
    /\ parsed = NotParsed
    /\ trend = "none"


\* ---------------------------------------------------------- configuration
\* Type Registry register(type, checkFn, recoveryFn): the last registration of
\* a type wins; a registration without a recovery function leaves the type
\* with no recovery handler.  Registrations precede start_monitoring.  The
\* monitor has a dict for recovery functions only (self.recovery_strategies):
\* a registered check function has no place in it, and _check_intent reads
\* none, so the registration of the check is only remembered here.
register(type, withRecovery) ==
    /\ monPc = "none"
    /\ registered_checks' = registered_checks \cup {type}
    /\ recovery_strategies' =
          IF withRecovery THEN recovery_strategies \cup {type}
                          ELSE recovery_strategies \ {type}
    /\ UNCHANGED <<monitoring_active, recovery_enabled, intent_status, violations,
                   recovery_actions, recovery_attempts, clock, monVars, recPc,
                   rec_action, ghostMon, ghostRec, scen>>
    /\ UNCHANGED <<noteVars, pureVars>>
    /\ UNCHANGED <<self_intents, otherVars>>

\* `monitor.recovery_enabled = False`, set by the script that builds the
\* monitor, before it calls start_monitoring.
set_recovery_enabled(b) ==
    /\ monPc = "none"
    /\ recovery_enabled' = b
    /\ UNCHANGED <<monitoring_active, recovery_strategies, intent_status, violations,
                   recovery_actions, recovery_attempts, clock, monVars, recPc,
                   rec_action, ghostMon, ghostRec, scen>>
    /\ UNCHANGED <<registered_checks, noteVars, pureVars>>
    /\ UNCHANGED <<self_intents, otherVars>>

\* ------------------------------------------------------------- start, stop
\* start_monitoring: sets the flag and starts the monitor thread, and the
\* recovery thread if recovery is enabled.  (One start per monitor here.)
start_monitoring ==
    /\ ~monitoring_active
    /\ monPc = "none"
    /\ monitoring_active' = TRUE
    /\ monPc' = "sleep"
    /\ recPc' = IF recovery_enabled THEN "sleep" ELSE "none"
    /\ UNCHANGED <<recovery_enabled, recovery_strategies, intent_status, violations,
                   recovery_actions, recovery_attempts, clock, mon_idx,
                   mon_violations, mon_h, mon_can, rec_action, ghostMon, ghostRec,
                   scen>>
    /\ UNCHANGED <<registered_checks, noteVars, pureVars>>
    /\ UNCHANGED <<self_intents, otherVars>>

\* stop_monitoring: clears the flag; the joins only wait.
stop_monitoring ==
    /\ monitoring_active
    /\ monitoring_active' = FALSE
    /\ UNCHANGED <<recovery_enabled, recovery_strategies, intent_status, violations,
                   recovery_actions, recovery_attempts, clock, monVars, recPc,
                   rec_action, ghostMon, ghostRec, scen>>
    /\ UNCHANGED <<registered_checks, noteVars, pureVars>>
    /\ UNCHANGED <<self_intents, otherVars>>

\* A loop that never looks at the flag.
loop_test_ignores_flag(active) == TRUE

\* `while self.monitoring_active:`, the test both loops make before each tick.
loop_test(active) == active

\* ------------------------------------------------------ the monitor thread
\* _monitoring_loop, `while self.monitoring_active:` true: a tick begins with
\* _check_all_intents and its empty local list.
monitor_tick_upto(limit) ==
    /\ monPc = "sleep"
    /\ loop_test(monitoring_active)
    /\ clock < limit
    /\ clock' = clock + 1
    /\ monPc' = "check"
    /\ mon_idx' = 1
    /\ mon_violations' = <<>>
    /\ checked' = {}
    /\ raised' = "none"
    /\ UNCHANGED <<monitoring_active, recovery_enabled, recovery_strategies,
                   intent_status, violations, recovery_actions, recovery_attempts,
                   mon_h, mon_can, recPc, rec_action, probe, ghostRec, scen>>
    /\ mon_notes' = <<>>
    /\ UNCHANGED <<registered_checks, rec_note, pureVars>>
    /\ UNCHANGED <<self_intents, otherVars>>

monitor_tick == monitor_tick_upto(MaxTicks)

\* _monitoring_loop, `while self.monitoring_active:` false: the thread ends.
monitor_exit ==
    /\ monPc = "sleep"
    /\ ~loop_test(monitoring_active)
    /\ monPc' = "exited"
    /\ UNCHANGED <<monitoring_active, recovery_enabled, recovery_strategies,
                   intent_status, violations, recovery_actions, recovery_attempts,
                   clock, mon_idx, mon_violations, mon_h, mon_can, recPc, rec_action,
                   ghostMon, ghostRec, scen>>
    /\ UNCHANGED <<registered_checks, noteVars, pureVars>>
    /\ UNCHANGED <<self_intents, otherVars>>

\* A loop that walks self.intents backwards.
intent_at_reversed(k) == IntentOrder[Len(IntentOrder) + 1 - k]

\* The k-th item of `for intent_id, intent_spec in self.intents.items()`: a
\* dict is walked in insertion order.
intent_at(k) == IntentOrder[k]

\* A check that rewrites the type of the intent it evaluated.
intents_after_check_retyped(reg, id) == [reg EXCEPT ![id].type = "LINK_UTILIZATION"]

\* self.intents after one iteration of _check_all_intents: the loop reads
\* intent_spec and assigns nothing to it (nor does any other method: the
\* strategies and the report only call self.intents.get), which is why the
\* actions read the definition `intents`.
intents_after_check(reg, id) == reg

\* The history of one intent's check: violated, or confirmed after a recovery.
ScenAfterCheck(old, status) ==
    CASE status = "VIOLATED" -> "violated"
      [] status = "SATISFIED" /\ old = "recovered" -> "confirmed"
      [] OTHER -> "none"

\* One iteration of the loop of _check_all_intents: the intent's check, the
\* status assignment, and the violation appended to the local list.  After
\* the last intent the tick goes on to _handle_violations (if the list is
\* not empty) or to its sleep.
\* (The measurement the iteration adds to self.intent_metrics is read by no
\* check and no decision; record_metric follows that history.)
check_all_intents(p) ==
    /\ monPc = "check"
    /\ LET id     == intent_at(mon_idx)
           status == check_intent(intents[id].type, p)
           found  == IF status = "VIOLATED"
                     THEN Append(mon_violations, IntentViolation(id, clock))
                     ELSE mon_violations
       IN /\ p \in ProbeOutcomes(intents[id].type)
          /\ intent_status' = [intent_status EXCEPT ![id] = status]
          /\ mon_violations' = found
          /\ probe' = [probe EXCEPT ![id] = p]
          /\ checked' = checked \cup {id}
          /\ self_intents' = intents_after_check(self_intents, id)
          /\ UNCHANGED otherVars
          /\ scen' = [scen EXCEPT ![id] = ScenAfterCheck(scen[id], status)]
          /\ IF mon_idx < Len(IntentOrder)
             THEN /\ mon_idx' = mon_idx + 1
                  /\ UNCHANGED <<monPc, mon_h>>
             ELSE /\ mon_idx' = 0
                  /\ monPc' = IF found # <<>> THEN "handle" ELSE "sleep"
                  /\ mon_h' = IF found # <<>> THEN 1 ELSE 0
    /\ UNCHANGED <<monitoring_active, recovery_enabled, recovery_strategies,
                   violations, recovery_actions, recovery_attempts, clock, mon_can,
                   recPc, rec_action, raised, ghostRec>>
    /\ UNCHANGED <<registered_checks, noteVars, pureVars>>

\* _handle_violations, first half of one iteration: the violation is appended
\* to self.violations, _log_violation writes the log file (logOk: the write
\* succeeds; otherwise it raises, and the exception ends the tick in the
\* `except` of _monitoring_loop), and
\* `self.recovery_enabled and self._can_recover(violation)` is evaluated.
handle_violations_record(logOk) ==
    /\ monPc = "handle"
    /\ LET v == mon_violations[mon_h]
       IN /\ violations' = Append(violations, v)
          /\ IF logOk
             THEN /\ mon_can' = (recovery_enabled
                                   /\ can_recover(v, recovery_attempts, recovery_strategies))
                  /\ monPc' = "decided"
                  /\ UNCHANGED <<mon_h, mon_violations, raised>>
             ELSE /\ monPc' = "sleep"
                  /\ mon_h' = 0
                  /\ mon_violations' = <<>>
                  /\ raised' = v.intent_id
                  /\ UNCHANGED mon_can
    /\ UNCHANGED <<monitoring_active, recovery_enabled, recovery_strategies,
                   intent_status, recovery_actions, recovery_attempts, clock, mon_idx,
                   recPc, rec_action, probe, checked, ghostRec, scen>>
    /\ UNCHANGED <<registered_checks, noteVars, pureVars>>
    /\ UNCHANGED <<self_intents, otherVars>>

\* A queue that takes a new violation at its head.
enqueue_front(q, v) == <<v>> \o q

\* The queue after the branch `self.recovery_actions.append(violation)`.
enqueue(q, v) == Append(q, v)

\* The reason _handle_violations hands to _notify_operator when its first
\* condition was false: `elif self.recovery_enabled and not
\* self._can_recover(violation)`, else the last branch.  _can_recover is
\* called anew here, on the counters as they are by then.
notify_reason(enabled, can) ==
    IF enabled /\ ~can THEN "Max recovery attempts reached."
                       ELSE "Automatic recovery is disabled."

\* _handle_violations, second half of one iteration: the violation is put on
\* the recovery queue, or the operator is notified (a print); then the next
\* violation, or the end of the tick.
handle_violations_dispatch ==
    /\ monPc = "decided"
    /\ LET v   == mon_violations[mon_h]
           can == can_recover(v, recovery_attempts, recovery_strategies)
       IN /\ recovery_actions' = IF mon_can THEN enqueue(recovery_actions, v)
                                            ELSE recovery_actions
          /\ mon_notes' =
                IF mon_can THEN mon_notes
                ELSE Append(mon_notes, [intent_id |-> v.intent_id,
                                        reason |-> notify_reason(recovery_enabled, can)])
          /\ scen' = IF mon_can THEN [scen EXCEPT ![v.intent_id] = "enqueued"] ELSE scen
    /\ IF mon_h < Len(mon_violations)
       THEN /\ mon_h' = mon_h + 1
            /\ monPc' = "handle"
            /\ UNCHANGED mon_violations
       ELSE /\ mon_h' = 0
            /\ monPc' = "sleep"
            /\ mon_violations' = <<>>
    /\ mon_can' = FALSE
    /\ UNCHANGED <<monitoring_active, recovery_enabled, recovery_strategies,
                   intent_status, violations, recovery_attempts, clock, mon_idx,
                   recPc, rec_action, ghostMon, ghostRec>>
    /\ UNCHANGED <<registered_checks, rec_note, pureVars>>
    /\ UNCHANGED <<self_intents, otherVars>>


\* A dispatcher that empties the queue when it takes the head.
queue_after_pop_all(q) == <<>>

\* self.recovery_actions after `self.recovery_actions.pop(0)`.
queue_after_pop(q) == Tail(q)

\* ----------------------------------------------------- the recovery thread
\* _recovery_loop, `while self.monitoring_active:` true and the queue not
\* empty: `action = self.recovery_actions.pop(0)`.  (With an empty queue the
\* tick only sleeps.)
recovery_loop_pop ==
    /\ recPc = "sleep"
    /\ loop_test(monitoring_active)
    /\ recovery_actions # <<>>
    /\ rec_action' = Head(recovery_actions)
    /\ recovery_actions' = queue_after_pop(recovery_actions)
    /\ recPc' = "execute"
    /\ UNCHANGED <<monitoring_active, recovery_enabled, recovery_strategies,
                   intent_status, violations, recovery_attempts, clock, monVars,
                   ghostMon, ghostRec, scen>>
    /\ UNCHANGED <<registered_checks, noteVars, pureVars>>
    /\ UNCHANGED <<self_intents, otherVars>>

\* _recovery_loop, `while self.monitoring_active:` false: the thread ends.
recovery_exit ==
    /\ recPc = "sleep"
    /\ ~loop_test(monitoring_active)
    /\ recPc' = "exited"
    /\ UNCHANGED <<monitoring_active, recovery_enabled, recovery_strategies,
                   intent_status, violations, recovery_actions, recovery_attempts,
                   clock, monVars, rec_action, ghostMon, ghostRec, scen>>
    /\ UNCHANGED <<registered_checks, noteVars, pureVars>>
    /\ UNCHANGED <<self_intents, otherVars>>

\* A dispatcher that counts every attempt twice.
increment_attempts_twice(attempts, key) == [attempts EXCEPT ![key] = @ + 2]

\* The counters after
\* `self.recovery_attempts[key] = self.recovery_attempts.get(key, 0) + 1`.
increment_attempts(attempts, key) == [attempts EXCEPT ![key] = @ + 1]

\* _execute_recovery up to the call of the strategy: the counter is
\* incremented and the strategy looked up; with no strategy for the type
\* the function returns.
execute_recovery_begin ==
    /\ recPc = "execute"
    /\ recovery_attempts' = increment_attempts(recovery_attempts, Key(rec_action))
    /\ IF rec_action.intent_type \in recovery_strategies
       THEN /\ recPc' = "invoke"
            /\ UNCHANGED rec_action
       ELSE /\ recPc' = "sleep"
            /\ rec_action' = NoAction
    /\ UNCHANGED <<monitoring_active, recovery_enabled, recovery_strategies,
                   intent_status, violations, recovery_actions, clock, monVars,
                   ghostMon, ghostRec, scen>>
    /\ rec_note' = "none"
    /\ UNCHANGED <<registered_checks, mon_notes, pureVars>>
    /\ UNCHANGED <<self_intents, otherVars>>

\* An _execute_recovery that resets the counter whatever the strategy did.
after_strategy_always_reset(attempts, key, outcome) == [attempts EXCEPT ![key] = 0]

\* An _execute_recovery that never resets the counter.
after_strategy_never_reset(attempts, key, outcome) == attempts

\* The counters after the strategy call of _execute_recovery ended: reset on
\* `if success:`, left alone when it returned False or raised.
after_strategy(attempts, key, outcome) ==
    IF outcome = "success" THEN [attempts EXCEPT ![key] = 0] ELSE attempts

\* A dispatcher that marks the intent SATISFIED when its strategy succeeded.
status_after_recovery_satisfied(status, attempts, v, outcome) ==
    IF outcome = "success" THEN [status EXCEPT ![v.intent_id] = "SATISFIED"] ELSE status

\* The intent status map after the strategy call of _execute_recovery ended:
\* neither branch assigns self.intent_status (a failure at the maximum only
\* calls _notify_operator, which prints).
status_after_recovery(status, attempts, v, outcome) == status

\* _execute_recovery from the return of the strategy call: `success =
\* strategy(violation)` returned True or False, or raised into the `except`
\* of _recovery_loop; then the thread sleeps.  Only a False return reaches
\* `_notify_operator(violation, "Recovery failed after max attempts.")`.
execute_recovery_finish(outcome) ==
    /\ recPc = "invoke"
    /\ outcome \in StrategyOutcomes
    /\ LET key == Key(rec_action)
           id  == rec_action.intent_id
           run == IF outcome = "success" THEN 0 ELSE streak[key] + 1
       IN /\ recovery_attempts' = after_strategy(recovery_attempts, key, outcome)
          /\ intent_status' =
                status_after_recovery(intent_status, recovery_attempts, rec_action, outcome)
          /\ last_outcome' = [last_outcome EXCEPT ![key] = outcome]
          /\ streak' = [streak EXCEPT ![key] = run]
          /\ exhausted_at' =
                IF run >= max_recovery_attempts /\ exhausted_at[key] = 0
                THEN [exhausted_at EXCEPT ![key] = clock + 1]
                ELSE exhausted_at
          /\ rec_note' =
                IF outcome = "failure" /\ recovery_attempts[key] >= max_recovery_attempts
                THEN id ELSE "none"
          /\ scen' =
                IF outcome = "success" /\ scen[id] = "enqueued"
                   /\ Count(id, recovery_actions) = 0
                THEN [scen EXCEPT ![id] = "recovered"]
                ELSE scen
    /\ recPc' = "sleep"
    /\ rec_action' = NoAction
    /\ UNCHANGED <<monitoring_active, recovery_enabled, recovery_strategies,
                   violations, recovery_actions, clock, monVars, ghostMon>>
    /\ UNCHANGED <<registered_checks, mon_notes, pureVars>>
    /\ UNCHANGED <<self_intents, otherVars>>

\* ------------------------------------------------------- the specification
Next ==
    \/ \E t \in RegisterTypes, b \in BOOLEAN : register(t, b)
    \/ \E b \in BOOLEAN : set_recovery_enabled(b)
    \/ start_monitoring
    \/ stop_monitoring
    \/ monitor_tick
    \/ monitor_exit
    \/ \E p \in {"ok", "bad", "error", "unhealthy", "none"} : check_all_intents(p)
    \/ \E logOk \in BOOLEAN : handle_violations_record(logOk)
    \/ handle_violations_dispatch
    \/ recovery_loop_pop
    \/ recovery_exit
    \/ execute_recovery_begin
    \/ \E o \in StrategyOutcomes : execute_recovery_finish(o)

Spec == Init /\ [][Next]_vars

\* ------------------------------------------- start and stop, repeatedly
\* start_monitoring: returns at once when the flag is set; otherwise sets it
\* and starts a monitor thread and (recovery_enabled being True) a recovery
\* thread.
life_start_monitoring ==
    /\ lifecycle.caller = "idle"
    /\ lifecycle.calls < MaxCalls
    /\ lifecycle' =
          IF lifecycle.active
          THEN [lifecycle EXCEPT !.calls = @ + 1]
          ELSE [lifecycle EXCEPT
                   !.calls = @ + 1,
                   !.active = TRUE,
                   !.monitors = Append(@, "sleep"),
                   !.monitor_thread = Len(lifecycle.monitors) + 1,
                   !.recoveries = Append(@, "sleep"),
                   !.recovery_thread = Len(lifecycle.recoveries) + 1]
    /\ UNCHANGED <<monitoring_active, recovery_enabled, recovery_strategies,
                   intent_status, violations, recovery_actions, recovery_attempts,
                   clock, monVars, recPc, rec_action, ghostMon, ghostRec, scen,
                   registered_checks, noteVars, pureVars, self_intents,
                   stop_returned, manager, executer>>

\* stop_monitoring, up to its joins: clears the flag; with no thread ever
\* started there is nothing to join and it returns.
life_stop_monitoring ==
    /\ lifecycle.caller = "idle"
    /\ lifecycle.calls < MaxCalls
    /\ lifecycle' =
          [lifecycle EXCEPT
              !.calls = @ + 1,
              !.active = FALSE,
              !.caller = IF lifecycle.monitor_thread = 0 THEN "idle" ELSE "joining"]
    /\ UNCHANGED <<monitoring_active, recovery_enabled, recovery_strategies,
                   intent_status, violations, recovery_actions, recovery_attempts,
                   clock, monVars, recPc, rec_action, ghostMon, ghostRec, scen,
                   registered_checks, noteVars, pureVars, self_intents,
                   stop_returned, manager, executer>>

\* The two `join(timeout=2)` of stop_monitoring are over: each has returned
\* because its thread ended or because its two seconds ran out.
joins_return(monitor_ended, monitor_timeout, recovery_ended, recovery_timeout) ==
    /\ monitor_ended \/ monitor_timeout
    /\ recovery_ended \/ recovery_timeout

\* stop_monitoring returns to its caller.
life_stop_return(monitor_timeout, recovery_timeout) ==
    /\ lifecycle.caller = "joining"
    /\ joins_return(lifecycle.monitors[lifecycle.monitor_thread] = "exited",
                    monitor_timeout,
                    lifecycle.recoveries[lifecycle.recovery_thread] = "exited",
                    recovery_timeout)
    /\ lifecycle' = [lifecycle EXCEPT !.caller = "idle"]
    /\ UNCHANGED <<monitoring_active, recovery_enabled, recovery_strategies,
                   intent_status, violations, recovery_actions, recovery_attempts,
                   clock, monVars, recPc, rec_action, ghostMon, ghostRec, scen,
                   registered_checks, noteVars, pureVars, self_intents,
                   stop_returned, manager, executer>>

\* stop_monitoring, after the flag was cleared: its joins are over and it
\* returns to its caller.  (The recovery thread is joined only if one was
\* started.)
stop_join(monitor_timeout, recovery_timeout) ==
    /\ ~monitoring_active
    /\ monPc # "none"
    /\ ~stop_returned
    /\ joins_return(monPc = "exited", monitor_timeout,
                    recPc \in {"none", "exited"}, recovery_timeout)
    /\ stop_returned' = TRUE
    /\ UNCHANGED <<monitoring_active, recovery_enabled, recovery_strategies,
                   intent_status, violations, recovery_actions, recovery_attempts,
                   clock, monVars, recPc, rec_action, ghostMon, ghostRec, scen,
                   registered_checks, noteVars, pureVars, self_intents,
                   lifecycle, manager, executer>>

\* Where a loop goes from its sleep: `while self.monitoring_active:` true,
\* into a tick; false, out of the loop.
loop_wake(active) == IF loop_test(active) THEN "tick" ELSE "exited"

\* Monitor thread i wakes from its sleep and tests the flag.
life_monitor_wake(i) ==
    /\ i \in 1..Len(lifecycle.monitors)
    /\ lifecycle.monitors[i] = "sleep"
    /\ loop_wake(lifecycle.active) = "tick" => lifecycle.ticks < MaxLifeTicks
    /\ lifecycle' =
          [lifecycle EXCEPT
              !.monitors[i] = loop_wake(lifecycle.active),
              !.ticks = IF loop_wake(lifecycle.active) = "tick" THEN @ + 1 ELSE @]
    /\ UNCHANGED <<monitoring_active, recovery_enabled, recovery_strategies,
                   intent_status, violations, recovery_actions, recovery_attempts,
                   clock, monVars, recPc, rec_action, ghostMon, ghostRec, scen,
                   registered_checks, noteVars, pureVars, self_intents,
                   stop_returned, manager, executer>>

\* Monitor thread i ends its tick (_check_all_intents, _handle_violations)
\* and sleeps.
life_monitor_tick(i) ==
    /\ i \in 1..Len(lifecycle.monitors)
    /\ lifecycle.monitors[i] = "tick"
    /\ lifecycle' = [lifecycle EXCEPT !.monitors[i] = "sleep"]
    /\ UNCHANGED <<monitoring_active, recovery_enabled, recovery_strategies,
                   intent_status, violations, recovery_actions, recovery_attempts,
                   clock, monVars, recPc, rec_action, ghostMon, ghostRec, scen,
                   registered_checks, noteVars, pureVars, self_intents,
                   stop_returned, manager, executer>>

\* Recovery thread i tests the flag.
life_recovery_wake(i) ==
    /\ i \in 1..Len(lifecycle.recoveries)
    /\ lifecycle.recoveries[i] = "sleep"
    /\ loop_wake(lifecycle.active) = "tick" => lifecycle.ticks < MaxLifeTicks
    /\ lifecycle' =
          [lifecycle EXCEPT
              !.recoveries[i] = loop_wake(lifecycle.active),
              !.ticks = IF loop_wake(lifecycle.active) = "tick" THEN @ + 1 ELSE @]
    /\ UNCHANGED <<monitoring_active, recovery_enabled, recovery_strategies,
                   intent_status, violations, recovery_actions, recovery_attempts,
                   clock, monVars, recPc, rec_action, ghostMon, ghostRec, scen,
                   registered_checks, noteVars, pureVars, self_intents,
                   stop_returned, manager, executer>>

\* Recovery thread i ends its tick (the pop and _execute_recovery, if the
\* queue held anything) and sleeps.
life_recovery_tick(i) ==
    /\ i \in 1..Len(lifecycle.recoveries)
    /\ lifecycle.recoveries[i] = "tick"
    /\ lifecycle' = [lifecycle EXCEPT !.recoveries[i] = "sleep"]
    /\ UNCHANGED <<monitoring_active, recovery_enabled, recovery_strategies,
                   intent_status, violations, recovery_actions, recovery_attempts,
                   clock, monVars, recPc, rec_action, ghostMon, ghostRec, scen,
                   registered_checks, noteVars, pureVars, self_intents,
                   stop_returned, manager, executer>>

NextLifecycle ==
    \/ life_start_monitoring
    \/ life_stop_monitoring
    \/ \E tm, tr \in BOOLEAN : life_stop_return(tm, tr)
    \/ \E i \in 1..MaxCalls : life_monitor_wake(i)
    \/ \E i \in 1..MaxCalls : life_monitor_tick(i)
    \/ \E i \in 1..MaxCalls : life_recovery_wake(i)
    \/ \E i \in 1..MaxCalls : life_recovery_tick(i)

\* ------------------------------------- MonitoringManager (teste_claude.py)
\* `while self.monitoring_active:` true: current_time = time.time(), and the
\* loop over the plugins begins.
mgr_loop_test ==
    /\ manager.pc = "test"
    /\ manager.now < MaxTime
    /\ manager' = [manager EXCEPT !.pc = "plugins", !.idx = 1,
                                  !.current_time = manager.now]
    /\ UNCHANGED <<monitoring_active, recovery_enabled, recovery_strategies,
                   intent_status, violations, recovery_actions, recovery_attempts,
                   clock, monVars, recPc, rec_action, ghostMon, ghostRec, scen,
                   registered_checks, noteVars, pureVars, self_intents,
                   stop_returned, lifecycle, executer>>

\* plugin_timers after one plugin's turn: `plugin_timers[plugin] =
\* current_time` is the last statement of the try block, reached only when
\* collect_metric, check_intent_compliance and every callback returned.
timers_after(timers, k, current_time, outcome) ==
    IF outcome = "ok" THEN [timers EXCEPT ![k] = current_time] ELSE timers

\* One iteration of `for plugin in self.monitoring_plugins`: when the plugin
\* is due, collect_metric is called (taking `took` seconds with what follows
\* it) and the turn ends well or with an exception that the `except` of the
\* iteration catches; when it is not due nothing happens.
mgr_plugin(outcome, took) ==
    /\ manager.pc = "plugins"
    /\ LET k   == manager.idx
           due == manager.current_time - manager.plugin_timers[k]
                     >= get_collection_interval(Plugins[k])
           nxt == IF k < Len(Plugins) THEN [pc |-> "plugins", idx |-> k + 1]
                                      ELSE [pc |-> "sleep", idx |-> 0]
       IN /\ IF due THEN outcome \in {"ok", "raise"} /\ took \in {0, 1}
                    ELSE outcome = "skip" /\ took = 0
          /\ manager' =
                [manager EXCEPT
                    !.pc = nxt.pc,
                    !.idx = nxt.idx,
                    !.now = @ + took,
                    !.last_attempt[k] = IF due THEN manager.now ELSE @,
                    !.last_outcome = outcome,
                    !.plugin_timers =
                        timers_after(@, k, manager.current_time, outcome)]
    /\ UNCHANGED <<monitoring_active, recovery_enabled, recovery_strategies,
                   intent_status, violations, recovery_actions, recovery_attempts,
                   clock, monVars, recPc, rec_action, ghostMon, ghostRec, scen,
                   registered_checks, noteVars, pureVars, self_intents,
                   stop_returned, lifecycle, executer>>

\* time.sleep(1) at the end of the loop body.
mgr_sleep ==
    /\ manager.pc = "sleep"
    /\ manager' = [manager EXCEPT !.pc = "test", !.now = @ + 1]
    /\ UNCHANGED <<monitoring_active, recovery_enabled, recovery_strategies,
                   intent_status, violations, recovery_actions, recovery_attempts,
                   clock, monVars, recPc, rec_action, ghostMon, ghostRec, scen,
                   registered_checks, noteVars, pureVars, self_intents,
                   stop_returned, lifecycle, executer>>

NextManager ==
    \/ mgr_loop_test
    \/ \E outcome \in {"ok", "raise", "skip"}, took \in {0, 1} :
          mgr_plugin(outcome, took)
    \/ mgr_sleep

\* ------------------------------------------- Executer (jmp/Executer.py)
\* What the steps of the Executer leave alone.
executer_frame ==
    UNCHANGED <<monitoring_active, recovery_enabled, recovery_strategies,
                intent_status, violations, recovery_actions, recovery_attempts,
                clock, monVars, recPc, rec_action, ghostMon, ghostRec, scen,
                registered_checks, noteVars, pureVars, self_intents,
                stop_returned, lifecycle, manager>>

\* ResourceMonitor.run, `while not self.stopped.is_set():` a pass over the
\* hosts begins, or the thread ends.
exe_thread_test ==
    /\ executer.thread = "test"
    /\ ~executer.stopped => executer.passes < MaxPasses
    /\ executer' =
          IF executer.stopped
          THEN [executer EXCEPT !.thread = "done"]
          ELSE [executer EXCEPT !.thread = "pass", !.host = 1, !.passes = @ + 1]
    /\ executer_frame

\* One iteration of `for host in self.network.hosts`: host.cmd('top -b -n
\* 1') and the parsing of its output, which ends well or raises into the
\* `except` of the iteration; after the last host the thread sleeps.
exe_host_cmd(outcome) ==
    /\ executer.thread = "pass"
    /\ outcome \in {"ok", "raise"}
    /\ executer' =
          [executer EXCEPT
              !.last_cmd = outcome,
              !.late = @ \/ executer.main = "net_stopped",
              !.host = IF executer.host < MaxHosts THEN @ + 1 ELSE 0,
              !.thread = IF executer.host < MaxHosts THEN "pass" ELSE "sleep"]
    /\ executer_frame

\* time.sleep(self.interval) ends.
exe_thread_sleep ==
    /\ executer.thread = "sleep"
    /\ executer' = [executer EXCEPT !.thread = "test"]
    /\ executer_frame

\* executeTopology: the CLI returns and MONITOR_THREAD.stop() sets the Event.
exe_stop_signal ==
    /\ executer.main = "cli"
    /\ executer' = [executer EXCEPT !.main = "joining", !.stopped = TRUE,
                                    !.at_signal = executer.thread]
    /\ executer_frame

\* A join that does not wait for the thread.
join_returns_at_once(thread) == TRUE

\* MONITOR_THREAD.join(), without a timeout: returns when run has returned.
join_returns(thread) == thread = "done"

\* executeTopology: the join returns and NETWORK.stop() is called.
exe_network_stop ==
    /\ executer.main = "joining"
    /\ join_returns(executer.thread)
    /\ executer' = [executer EXCEPT !.main = "net_stopped"]
    /\ executer_frame

NextExecuter ==
    \/ exe_thread_test
    \/ \E outcome \in {"ok", "raise"} : exe_host_cmd(outcome)
    \/ exe_thread_sleep
    \/ exe_stop_signal
    \/ exe_network_stop

\* Longer runs in a narrower environment: recovery stays enabled with the
\* strategies of the constructor, monitoring is not stopped, the log file is
\* writable, only the connectivity probe fails and the strategies return
\* True or False.
NextDeep ==
    \/ start_monitoring
    \/ monitor_tick_upto(MaxDeepTicks)
    \/ \E p \in {"ok", "bad", "none"} :
          /\ monPc = "check"
          /\ IntentOrder[mon_idx] # "conn_h1-s1" => p # "bad"
          /\ check_all_intents(p)
    \/ handle_violations_record(TRUE)
    \/ handle_violations_dispatch
    \/ recovery_loop_pop
    \/ execute_recovery_begin
    \/ \E o \in {"success", "failure"} : execute_recovery_finish(o)

SpecDeep == Init /\ [][NextDeep]_vars

\* Shutdown: the environment of SpecDeep with stop_monitoring and the exits
\* of the two threads.  Each thread, once it can take a step of its tick or
\* leave its loop, does so: the threads are scheduled, the probes and the
\* strategies return, and the sleeps end.
NextStop ==
    \/ start_monitoring
    \/ stop_monitoring
    \/ monitor_tick_upto(MaxStopTicks)
    \/ monitor_exit
    \/ \E p \in {"ok", "bad", "none"} :
          /\ monPc = "check"
          /\ IntentOrder[mon_idx] # "conn_h1-s1" => p # "bad"
          /\ check_all_intents(p)
    \/ handle_violations_record(TRUE)
    \/ handle_violations_dispatch
    \/ recovery_loop_pop
    \/ recovery_exit
    \/ execute_recovery_begin
    \/ \E o \in {"success", "failure"} : execute_recovery_finish(o)

MonitorStep ==
    \/ \E p \in {"ok", "bad", "none"} : check_all_intents(p)
    \/ handle_violations_record(TRUE)
    \/ handle_violations_dispatch
    \/ monitor_exit

RecoveryStep ==
    \/ execute_recovery_begin
    \/ \E o \in {"success", "failure"} : execute_recovery_finish(o)
    \/ recovery_exit

SpecStop ==
    Init /\ [][NextStop]_vars /\ WF_vars(MonitorStep) /\ WF_vars(RecoveryStep)

\* Monitoring stays active: the environment of SpecDeep with strategies that
\* may also raise.  The recovery thread is scheduled, its sleeps end and the
\* strategies return or raise: a step of the dispatcher that can be taken
\* is taken.
NextDispatch ==
    \/ NextDeep
    \/ execute_recovery_finish("raise")

DispatcherStep ==
    \/ recovery_loop_pop
    \/ execute_recovery_begin
    \/ \E o \in StrategyOutcomes : execute_recovery_finish(o)

SpecDispatch == Init /\ [][NextDispatch]_vars /\ WF_vars(DispatcherStep)

\* Plugins: registrations of check and recovery functions for the plugin
\* types, then the monitor in the environment of SpecDeep.
NextRegistry ==
    \/ \E t \in PluginTypes, b \in BOOLEAN : register(t, b)
    \/ start_monitoring
    \/ monitor_tick_upto(MaxRegistryTicks)
    \/ \E p \in {"ok", "bad", "none"} : check_all_intents(p)
    \/ handle_violations_record(TRUE)
    \/ handle_violations_dispatch
    \/ recovery_loop_pop
    \/ execute_recovery_begin
    \/ \E o \in {"success", "failure"} : execute_recovery_finish(o)

SpecRegistry == Init /\ [][NextRegistry]_vars

\* The metric history of one intent, measurement after measurement.
SpecMetric == Init /\ [][NextMetric]_vars

\* The shutdown of NextStop, followed up to the return of stop_monitoring.
NextJoin ==
    \/ NextStop
    \/ \E tm, tr \in BOOLEAN : stop_join(tm, tr)

\* The monitor from its start to the return of stop_monitoring.
SpecJoin == Init /\ [][NextJoin]_vars

\* The monitor under MaxCalls calls of start_monitoring and stop_monitoring.
SpecLifecycle == Init /\ [][NextLifecycle]_vars

\* The loop thread of a MonitoringManager with two plugins, up to MaxTime.
SpecManager == Init /\ [][NextManager]_vars

\* executeTopology from the opening of the CLI to NETWORK.stop().
SpecExecuter == Init /\ [][NextExecuter]_vars

\* One reading of the trend of each history of InitTrend.
SpecTrend == InitTrend /\ [][NextTrend]_vars

\* One export of the report from each state of InitReport.
SpecReport == InitReport /\ [][NextReport]_vars

\* The derivation of the intents from each topology of InitParse.
SpecParse == InitParse /\ [][NextParse]_vars

\* The values the variables take.
TypeOK ==
    /\ monitoring_active \in BOOLEAN
    /\ recovery_enabled \in BOOLEAN
    /\ recovery_strategies \subseteq IntentType
    /\ intent_status \in [IntentIds -> IntentStatus \cup {NoStatus}]
    /\ \A k \in Keys : recovery_attempts[k] \in Nat
    /\ clock \in 0..MaxDeepTicks
    /\ monPc \in {"none", "sleep", "check", "handle", "decided", "exited"}
    /\ recPc \in {"none", "sleep", "execute", "invoke", "exited"}
    /\ Len(violations) <= MaxDeepTicks * Len(IntentOrder)


\* ------------------------------------------------------------- properties
\* The violation of intent id stamped `now` is in the history self.violations.
Recorded(id, now) ==
    \E k \in 1..Len(violations) :
        violations[k].intent_id = id /\ violations[k].timestamp = now

\* C1: once max_recovery_attempts consecutive recovery attempts of a pair
\* have failed, the intent's status is UNRECOVERABLE.
C1_UnrecoverableAfterMaxFailures ==
    \A id \in IntentIds :
        streak[KeyOf(id)] >= max_recovery_attempts
            => intent_status[id] = "UNRECOVERABLE"

\* C2: after max_recovery_attempts consecutive failed attempts of a pair, no
\* monitor tick that begins later puts a further violation of that pair on
\* the recovery queue.
C2_NoEnqueueAfterMaxFailures ==
    [][\A id \in IntentIds :
          (exhausted_at[KeyOf(id)] # 0 /\ clock >= exhausted_at[KeyOf(id)])
              => Count(id, recovery_actions') <= Count(id, recovery_actions)]_vars

\* C3: between recovery attempts, a pair's counter is 0 if and only if the
\* pair's most recent attempt succeeded; an attempt that failed or raised
\* leaves it above 0.
C3_CounterZeroIffLastSucceeded ==
    \A k \in Keys :
        (last_outcome[k] # "none" /\ ~(recPc = "invoke" /\ Key(rec_action) = k))
            => (recovery_attempts[k] = 0 <=> last_outcome[k] = "success")

\* C3 witness: one pair's last attempt succeeded and its counter is 0, while
\* another pair's last attempt raised after an earlier one.
C3_Witness ==
    /\ recPc = "sleep"
    /\ last_outcome[KeyOf("conn_h1-s1")] = "success"
    /\ recovery_attempts[KeyOf("conn_h1-s1")] = 0
    /\ last_outcome[KeyOf("bw_h1-s1")] = "raise"
    /\ recovery_attempts[KeyOf("bw_h1-s1")] = 2

\* C4: the monitor is never between its read of a counter (_can_recover) and
\* its enqueue while the dispatcher is between its dequeue and the end of
\* _execute_recovery.
C4_LoopsNeverInterleave ==
    ~(monPc = "decided" /\ recPc \in {"execute", "invoke"})

\* C5: whenever a monitor tick puts an intent's violation on the recovery
\* queue, the intent's status is RECOVERING afterwards.
C5_EnqueueMarksRecovering ==
    [][\A id \in IntentIds :
          Count(id, recovery_actions') > Count(id, recovery_actions)
              => intent_status'[id] = "RECOVERING"]_vars

C7_ViolatedRecoveredConfirmed ==
    \A id \in IntentIds :
        scen[id] = "confirmed"
            => /\ intent_status[id] = "SATISFIED"
               /\ recovery_attempts[KeyOf(id)] = 0

\* C7 witness: the scenario has run to its end for the bandwidth intent.
C7_Witness ==
    /\ scen["bw_h1-s1"] = "confirmed"
    /\ last_outcome[KeyOf("bw_h1-s1")] = "success"
    /\ probe["bw_h1-s1"] = "ok"
    /\ clock >= 2

\* C8: the violation of an intent whose type has no recovery handler is
\* never on the recovery queue nor held by the dispatcher; the intent is
\* never RECOVERING, and VIOLATED whenever its latest check failed.
C8_NoHandlerNeverEnqueued ==
    \A id \in IntentIds :
        intents[id].type \notin recovery_strategies
            => /\ Count(id, recovery_actions) = 0
               /\ rec_action.intent_id # id
               /\ intent_status[id] # "RECOVERING"
               /\ (probe[id] = "bad" => intent_status[id] = "VIOLATED")

\* C8 witness: the bandwidth type has no recovery handler and the bandwidth
\* intent failed its check in two ticks, both handled.
C8_Witness ==
    /\ "BANDWIDTH" \notin recovery_strategies
    /\ recovery_enabled
    /\ monPc = "sleep"
    /\ probe["bw_h1-s1"] = "bad"
    /\ Recorded("bw_h1-s1", 1)
    /\ Recorded("bw_h1-s1", 2)
    /\ clock = 2

\* C9: an intent whose type has no check is UNKNOWN once checked, yields no
\* violation and is never enqueued; and every tick that has left
\* _check_all_intents has evaluated all the intents.
C9_NoCheckHandlerSkipped ==
    /\ \A id \in IntentIds :
          intents[id].type \notin CheckedTypes
              => /\ intent_status[id] \in {NoStatus, "UNKNOWN"}
                 /\ (id \in checked => intent_status[id] = "UNKNOWN")
                 /\ Count(id, mon_violations) = 0
                 /\ Count(id, violations) = 0
                 /\ Count(id, recovery_actions) = 0
                 /\ rec_action.intent_id # id
    /\ (clock >= 1 /\ monPc \in {"handle", "decided", "sleep", "exited"})
          => checked = IntentIds

\* C9 witness: a tick is over; the jitter intent was skipped and the intent
\* after it was evaluated, as was a violated one before it.
C9_Witness ==
    /\ monPc = "sleep"
    /\ clock >= 1
    /\ intent_status["jitter_h1-s1"] = "UNKNOWN"
    /\ intent_status["cpu_h1"] = "SATISFIED"
    /\ intent_status["conn_h1-s1"] = "VIOLATED"
    /\ Count("conn_h1-s1", recovery_actions) >= 1

\* C10: when the handling of one intent raised in a tick, every other intent
\* that failed its check in that tick is still recorded in the violation
\* history by the end of the tick.
C10_RaiseDoesNotAbortTick ==
    (monPc = "sleep" /\ raised # "none")
        => \A id \in IntentIds \ {raised} :
              probe[id] = "bad" => Recorded(id, clock)

\* C11: an intent whose latest probe failed (the measurement raised or could
\* not be read, or the probing node's shell was unresponsive) is UNKNOWN, and
\* that tick made no violation of it.
C11_ProbeFailureIsUnknown ==
    \A id \in IntentIds :
        probe[id] \in {"error", "unhealthy"}
            => /\ intent_status[id] = "UNKNOWN"
               /\ \A k \in 1..Len(mon_violations) : mon_violations[k].intent_id # id

\* C12: when a recovery handler raises, the dispatcher goes back to its
\* sleep, the pair's counter keeps the increment of the attempt, and with the
\* counter at max_recovery_attempts the operator is notified as after a
\* handler that returned failure.
C12_RaiseIsFailedAttempt ==
    [][(recPc = "invoke" /\ recPc' # "invoke"
          /\ last_outcome'[Key(rec_action)] = "raise")
         => /\ recPc' = "sleep"
            /\ recovery_attempts'[Key(rec_action)] = recovery_attempts[Key(rec_action)]
            /\ recovery_attempts'[Key(rec_action)] >= 1
            /\ (recovery_attempts[Key(rec_action)] >= max_recovery_attempts
                  => rec_note' = rec_action.intent_id)]_vars

\* C13: with the flag cleared by stop_monitoring neither loop begins a tick,
\* a thread inside a tick does not leave before the tick is over (a check
\* pass still evaluates every intent), and once stopped both threads
\* eventually exit.
C13_StopEndsLoops ==
    /\ [][~monitoring_active
            => /\ ~(monPc = "sleep" /\ monPc' = "check")
               /\ ~(recPc = "sleep" /\ recPc' = "execute")
               /\ (monPc \in {"check", "handle", "decided"} => monPc' # "exited")
               /\ (recPc \in {"execute", "invoke"} => recPc' # "exited")
               /\ ((monPc = "check" /\ monPc' # "check") => checked' = IntentIds)]_vars
    /\ (~monitoring_active /\ monPc # "none")
          ~> (monPc = "exited" /\ recPc \in {"exited", "none"})

\* C13 witness: the flag was cleared while the monitor is inside a tick and
\* the dispatcher is inside a recovery.
C13_Witness ==
    /\ ~monitoring_active
    /\ monPc = "decided"
    /\ recPc = "invoke"

\* C14: the metric history holds at most maxlen samples, and they are the
\* most recent measurements in arrival order.
C14_HistoryKeepsMostRecent ==
    /\ Len(values) <= maxlen
    /\ Len(values) = (IF Len(samples) > maxlen THEN maxlen ELSE Len(samples))
    /\ values = SubSeq(samples, Len(samples) - Len(values) + 1, Len(samples))

\* C14 witness: twelve measurements were recorded, the two oldest evicted,
\* and the oldest one kept differs from the oldest one recorded.
C14_Witness ==
    /\ Len(samples) = maxlen + 2
    /\ Len(values) = maxlen
    /\ values[1] = samples[3]
    /\ values[1] # samples[1]

\* C15: get_trend is STABLE whenever fewer than 3 samples are recorded.
C15_TrendStableUnderThree ==
    Len(values) < 3 => get_trend(values) = "STABLE"

\* C15 witness: two samples more than 10% apart are STABLE, a third sample
\* of that size is not.
C15_Witness ==
    /\ values = <<10, 12>>
    /\ get_trend(values) = "STABLE"
    /\ get_trend(Append(values, 12)) = "DEGRADING"

C17_FullMeshConnectivity ==
    \A i \in 1..Len(parsed) :
        /\ parsed[i] = parsed[1]
        /\ ~parsed[i].raised
              => \A a, b \in {topology.hosts[k].id : k \in 1..Len(topology.hosts)} :
                    a # b =>
                       Cardinality({k \in 1..Len(parsed[i].intents) :
                           /\ parsed[i].intents[k].type = "CONNECTIVITY"
                           /\ {parsed[i].intents[k].endpoints[1],
                               parsed[i].intents[k].endpoints[2]} = {a, b}}) = 1

\* The intent with this id is in a derivation.
HasIntent(result, id) == \E k \in 1..Len(result.intents) : result.intents[k].id = id

\* C18: a derivation from a topology with a malformed entry completes; each
\* connection with two endpoints has its connectivity intent, and its
\* bandwidth intent if the bandwidth is a number; a connection without two
\* endpoints and a bandwidth that is no number yield no intent.
C18_MalformedEntryDropped ==
    \A i \in 1..Len(parsed) :
        /\ ~parsed[i].raised
        /\ \A k \in 1..Len(topology.connections) :
              LET conn == topology.connections[k]
              IN IF Len(conn.ENDPOINTS) = 2
                 THEN LET conn_id == conn.ENDPOINTS[1] \o "-" \o conn.ENDPOINTS[2]
                      IN /\ HasIntent(parsed[i], "conn_" \o conn_id)
                         /\ (conn.bandwidth = "10" => HasIntent(parsed[i], "bw_" \o conn_id))
                 ELSE \A j \in 1..Len(parsed[i].intents) :
                         Len(parsed[i].intents[j].endpoints) = 2
                            \/ parsed[i].intents[j].type = "CPU_USAGE"

\* C19: an intent whose type has a registered check function is measured by
\* it in every tick that evaluates the intent.
C19_RegisteredCheckIsUsed ==
    \A id \in IntentIds :
        (intents[id].type \in registered_checks /\ id \in checked)
            => probe[id] # "none"

\* C20: the step of a tick that disposes of one failed check either enqueues
\* the violation, exactly when recovery is enabled, the type has a recovery
\* handler and the pair's counter is below max_recovery_attempts, or else
\* emits exactly one operator notification, whose reason is "disabled"
\* exactly when recovery is disabled and "max attempts" exactly when the
\* counter is at max_recovery_attempts or above.
C20_EnqueueOrNotifyOnce ==
    [][(monPc = "decided" /\ (monPc' # "decided" \/ mon_h' # mon_h))
         => LET v     == mon_violations[mon_h]
                enq   == recovery_actions' = Append(recovery_actions, v)
                notes == Len(mon_notes') - Len(mon_notes)
                spent == recovery_attempts[Key(v)] >= max_recovery_attempts
            IN /\ (enq /\ notes = 0) \/ (recovery_actions' = recovery_actions /\ notes = 1)
               /\ enq <=> (recovery_enabled /\ v.intent_type \in recovery_strategies
                             /\ ~spent)
               /\ notes = 1 =>
                    LET reason == mon_notes'[Len(mon_notes')].reason
                    IN /\ reason = "Automatic recovery is disabled." <=> ~recovery_enabled
                       /\ reason = "Max recovery attempts reached." <=> spent]_vars

\* C21: the step from the dequeue to the handler's invocation adds exactly 1
\* to the pair's counter and touches no other counter; the only other change
\* of a counter is the reset to 0 when the handler succeeded; no counter is
\* negative.
C21_IncrementOncePerDequeue ==
    [][/\ \A k \in Keys : recovery_attempts'[k] >= 0
       /\ (recPc = "execute" /\ recPc' # "execute")
             => recovery_attempts' =
                   [recovery_attempts EXCEPT ![Key(rec_action)] = @ + 1]
       /\ (recovery_attempts' # recovery_attempts /\ recPc # "execute")
             => /\ recPc = "invoke"
                /\ last_outcome'[Key(rec_action)] = "success"
                /\ recovery_attempts' =
                      [recovery_attempts EXCEPT ![Key(rec_action)] = 0]]_vars

\* C21 witness: the handler is about to be invoked for the second attempt
\* in a row of a pair whose first attempt raised.
C21_Witness ==
    /\ recPc = "invoke"
    /\ recovery_attempts[Key(rec_action)] = 2
    /\ last_outcome[Key(rec_action)] = "raise"

\* Violation a was made before violation b: in an earlier tick, or in the
\* same tick for an intent checked earlier.
Position(id) == CHOOSE k \in 1..Len(IntentOrder) : IntentOrder[k] = id
MadeBefore(a, b) ==
    \/ a.timestamp < b.timestamp
    \/ a.timestamp = b.timestamp /\ Position(a.intent_id) < Position(b.intent_id)

\* C22: the recovery queue changes only by an append at its tail or by the
\* dispatcher taking its head, one item per recovery tick; the queue is in
\* the order the violations were made, and the violation being attempted
\* was made before every one still queued.
C22_QueueIsFifo ==
    [][/\ recovery_actions' # recovery_actions
             => \/ /\ recPc = "sleep" /\ recPc' = "execute"
                   /\ rec_action' = Head(recovery_actions)
                   /\ recovery_actions' = Tail(recovery_actions)
                \/ /\ recovery_actions' # <<>>
                   /\ recovery_actions' =
                         Append(recovery_actions,
                                recovery_actions'[Len(recovery_actions')])
                   /\ UNCHANGED <<recPc, rec_action>>
       /\ \A i, j \in 1..Len(recovery_actions') :
             i < j => MadeBefore(recovery_actions'[i], recovery_actions'[j])
       /\ rec_action' # NoAction
             => \A i \in 1..Len(recovery_actions') :
                   MadeBefore(rec_action', recovery_actions'[i])]_vars

\* C22 witness: the dispatcher holds the oldest violation while a violation
\* of the same tick and one of the next tick wait in that order.
C22_Witness ==
    /\ recPc = "invoke"
    /\ rec_action.intent_id = "conn_h1-s1"
    /\ rec_action.timestamp = 1
    /\ Len(recovery_actions) >= 2
    /\ recovery_actions[1].intent_id = "bw_h1-s1"
    /\ recovery_actions[1].timestamp = 1
    /\ recovery_actions[2].timestamp = 2

\* C23: no step of the dispatcher changes the intent status map, and an
\* intent becomes SATISFIED only in the monitor's check of that intent, on a
\* probe that meets the intent.
C23_DispatcherLeavesStatus ==
    [][/\ recPc' # recPc => intent_status' = intent_status
       /\ \A id \in IntentIds :
             (intent_status'[id] = "SATISFIED" /\ intent_status[id] # "SATISFIED")
                => /\ monPc = "check"
                   /\ IntentOrder[mon_idx] = id
                   /\ probe'[id] = "ok"]_vars

\* C23 witness: the recovery of an intent succeeded and the intent is still
\* VIOLATED, its next check not yet made.
C23_Witness ==
    /\ scen["conn_h1-s1"] = "recovered"
    /\ last_outcome[KeyOf("conn_h1-s1")] = "success"
    /\ intent_status["conn_h1-s1"] = "VIOLATED"
    /\ recPc = "sleep"

\* C24: when a recovery attempt ends without success, the dispatcher
\* notifies the operator exactly when the pair's counter is at
\* max_recovery_attempts or above, and below it the pair can be recovered
\* again.
C24_NotifyIffAtMaximum ==
    [][(recPc = "invoke" /\ recPc' # "invoke"
          /\ last_outcome'[Key(rec_action)] \in {"failure", "raise"})
         => /\ rec_note' = rec_action.intent_id
                  <=> recovery_attempts'[Key(rec_action)] >= max_recovery_attempts
            /\ recovery_attempts'[Key(rec_action)] < max_recovery_attempts
                  => can_recover(rec_action, recovery_attempts', recovery_strategies')]_vars

\* C25: in every tick the intents evaluated so far are the first ones of the
\* registry's insertion order, one more with each check.
C25_ChecksInInsertionOrder ==
    /\ checked = {IntentOrder[k] : k \in 1..Cardinality(checked)}
    /\ monPc = "check" => Cardinality(checked) = mon_idx - 1

\* C25 witness: the second tick has evaluated the first two intents and is
\* about to evaluate the third.
C25_Witness ==
    /\ monPc = "check"
    /\ clock = 2
    /\ mon_idx = 3
    /\ checked = {"conn_h1-s1", "bw_h1-s1"}

\* The first and the last of the three most recent samples held.
RecentFirst == values[Len(values) - 2]
RecentLast == values[Len(values)]

\* C26 as stated: with at least 3 samples the trend read is the one the
\* ratio last/first of the first and last of the 3 most recent samples
\* gives, DEGRADING above 1.1, IMPROVING under 0.9 and STABLE otherwise, for
\* all samples of 0..MaxValue; a first sample of 0 gives no ratio, so
\* neither comparison holds there.
C26_TrendByRatio ==
    trend # "none" =>
       trend = IF RecentFirst = 0 THEN "STABLE"
               ELSE CASE RecentLast * 10 > RecentFirst * 11 -> "DEGRADING"
                      [] RecentLast * 10 < RecentFirst * 9  -> "IMPROVING"
                      [] OTHER                              -> "STABLE"

\* C26 amended: with at least 3 samples the trend read compares the last of
\* the 3 most recent samples with the first one scaled: DEGRADING when
\* last > 1.1 * first, IMPROVING when last < 0.9 * first, STABLE otherwise;
\* so a first sample of 0 followed by a positive last one is DEGRADING and
\* two samples of 0 are STABLE.
C26_TrendByProduct ==
    trend # "none" =>
       /\ trend = "DEGRADING" <=> RecentLast * 10 > RecentFirst * 11
       /\ trend = "IMPROVING" <=> RecentLast * 10 < RecentFirst * 9
       /\ trend = "STABLE" <=> /\ RecentLast * 10 <= RecentFirst * 11
                               /\ RecentLast * 10 >= RecentFirst * 9

\* C26 witness: the trend was read from four samples whose three most recent
\* begin at 0 and end above it, after an oldest sample that is larger than
\* the last.
C26_Witness ==
    /\ Len(values) = 4
    /\ values[1] > RecentLast
    /\ RecentFirst = 0
    /\ RecentLast > 0
    /\ trend = "DEGRADING"

\* The entries of the history h made for intent id in tick t.
EntriesOf(h, id, t) ==
    Cardinality({i \in 1..Len(h) : h[i].intent_id = id /\ h[i].timestamp = t})

\* C27: the violation history changes only by one append at its end, and
\* when a tick ends the history holds exactly one entry of that tick for
\* each intent whose check failed in it and none for the others.
C27_HistoryAppendOnly ==
    [][/\ violations' # violations
             => /\ violations' # <<>>
                /\ violations' = Append(violations, violations'[Len(violations')])
       /\ (monPc \in {"check", "handle", "decided"} /\ monPc' = "sleep")
             => \A id \in IntentIds :
                   EntriesOf(violations', id, clock) =
                      IF intent_status'[id] = "VIOLATED" THEN 1 ELSE 0]_vars

\* C28: the intents the monitor holds are in every state the ones its
\* constructor derived: same ids, and for each the same type, target and
\* expected value.
C28_IntentsNeverChange == self_intents = intents

\* C28 witness: both threads have run and ended, two violations are in the
\* history and a recovery succeeded, with the intents as constructed.
C28_Witness ==
    /\ monPc = "exited"
    /\ recPc = "exited"
    /\ Len(violations) >= 2
    /\ \E k \in Keys : last_outcome[k] = "success"
    /\ self_intents = intents

\* The notifications of the tick for intent id that give the reason r.
NotesOf(id, r) ==
    Cardinality({i \in 1..Len(mon_notes) :
                    mon_notes[i].intent_id = id /\ mon_notes[i].reason = r})

\* C29: with recovery disabled the recovery queue is empty, the dispatcher
\* holds nothing and no attempt counter has moved, and at the end of every
\* tick each intent whose check failed has exactly one operator
\* notification, "Automatic recovery is disabled.".
C29_DisabledOnlyNotifies ==
    ~recovery_enabled =>
       /\ recovery_actions = <<>>
       /\ recPc = "none"
       /\ rec_action = NoAction
       /\ \A k \in Keys : recovery_attempts[k] = 0 /\ last_outcome[k] = "none"
       /\ (monPc = "sleep" /\ clock >= 1)
             => \A id \in IntentIds :
                   intent_status[id] = "VIOLATED"
                      => NotesOf(id, "Automatic recovery is disabled.") = 1

\* C30: in every state each pair's attempt counter is at most
\* max_recovery_attempts.
C30_CounterAtMostMaximum ==
    \A k \in Keys : recovery_attempts[k] <= max_recovery_attempts

\* C31: an intent whose check failed in every one of MaxDeepTicks ticks
\* (more than max_recovery_attempts), the last one enqueued like the others
\* and all of them dispatched, is escalated, whatever the handlers returned: its pair has
\* used up its attempts, so that it is no longer enqueued and the operator
\* is notified.
C31_PersistentFailureEscalates ==
    (/\ monPc = "sleep" /\ recPc = "sleep"
     /\ recovery_actions = <<>>
     /\ clock = MaxDeepTicks
     /\ mon_notes = <<>>
     /\ \A t \in 1..MaxDeepTicks : Recorded("conn_h1-s1", t))
        => ~can_recover(IntentViolation("conn_h1-s1", clock),
                        recovery_attempts, recovery_strategies)

\* C32: over any sequence of start_monitoring and stop_monitoring calls a
\* start made while the flag is set starts no thread, and a loop begins a
\* tick only if it is the loop of the latest start: no loop from before a
\* stop ticks again, so at most one monitor loop and one recovery loop run.
C32_AtMostOneLoopEach ==
    [][/\ (lifecycle.active /\ lifecycle'.calls # lifecycle.calls)
             => /\ lifecycle'.monitors = lifecycle.monitors
                /\ lifecycle'.recoveries = lifecycle.recoveries
       /\ \A i \in 1..Len(lifecycle.monitors) :
             (lifecycle.monitors[i] = "sleep" /\ lifecycle'.monitors[i] = "tick")
                => i = lifecycle.monitor_thread
       /\ \A i \in 1..Len(lifecycle.recoveries) :
             (lifecycle.recoveries[i] = "sleep" /\ lifecycle'.recoveries[i] = "tick")
                => i = lifecycle.recovery_thread]_vars

\* C33: once stop_monitoring has returned neither loop acts any more: no
\* intent is checked, no status assigned, nothing is appended to the history
\* or the recovery queue, nothing is dequeued and no recovery runs.
C33_NothingAfterStopReturns ==
    [][stop_returned
         => /\ UNCHANGED <<intent_status, violations, recovery_actions,
                           recovery_attempts, probe, checked, rec_action>>
            /\ monPc' \in {monPc, "exited"}
            /\ recPc' \in {recPc, "exited"}]_vars

\* C34: the dispatcher invokes a recovery handler only for an intent whose
\* status is VIOLATED at that moment.
C34_RecoverOnlyWhileViolated ==
    [][(recPc = "execute" /\ recPc' = "invoke")
         => intent_status[rec_action.intent_id] = "VIOLATED"]_vars

\* C35: the recovery queue never holds two violations of one intent.
C35_OnePendingPerIntent ==
    \A id \in IntentIds : Count(id, recovery_actions) <= 1

\* Violation v waits on the recovery queue.
Pending(v) == \E i \in 1..Len(recovery_actions) : recovery_actions[i] = v

\* C36: with monitoring active and the recovery loop scheduled fairly, every
\* violation on the recovery queue is eventually the one the dispatcher
\* invokes the recovery handler for.
C36_QueuedIsEventuallyAttempted ==
    \A t \in 1..MaxDeepTicks :
        Pending(IntentViolation("conn_h1-s1", t))
            ~> (recPc = "invoke" /\ rec_action = IntentViolation("conn_h1-s1", t))

\* C36 witness: the dispatcher is attempting the violation of the second
\* tick, after an attempt that raised, with a later violation waiting.
C36_Witness ==
    /\ recPc = "invoke"
    /\ rec_action = IntentViolation("conn_h1-s1", 2)
    /\ last_outcome[KeyOf("conn_h1-s1")] = "raise"
    /\ Pending(IntentViolation("conn_h1-s1", 3))

\* The sum of the entries of summary for the keys of S.
RECURSIVE SumOver(_, _)
SumOver(summary, S) ==
    IF S = {} THEN 0
    ELSE LET k == CHOOSE x \in S : TRUE
         IN summary[k] + SumOver(summary, S \ {k})

\* C37: in every exported report the counts per status add up to the
\* reported total and the per-intent detail has an entry for every intent
\* of the registry.
C37_ReportCountsAddUp ==
    document # NoDocument
        => LET loaded == json_load(document)
           IN /\ SumOver(loaded.summary, IntentStatus) = loaded.summary["total"]
              /\ DOMAIN loaded.intents = IntentIds

\* C38: a plugin's collect_metric is called only if it was never called
\* before or at least the plugin's collection interval has passed since its
\* previous call, however that call and what followed it ended.
C38_CollectionIntervalKept ==
    [][\A k \in 1..Len(Plugins) :
          manager'.last_attempt[k] # manager.last_attempt[k]
             => \/ manager.last_attempt[k] = -1
                \/ manager'.last_attempt[k] - manager.last_attempt[k]
                      >= get_collection_interval(Plugins[k])]_vars

\* C39: the network is stopped only when the ResourceMonitor thread has
\* ended and no host command is issued afterwards; once stop() is signalled
\* the thread begins no new pass, and a pass in progress is finished before
\* the thread ends.
C39_NetworkStopsAfterThread ==
    [][/\ executer'.main = "net_stopped"
             => executer'.thread = "done" /\ ~executer'.late
       /\ (executer.stopped /\ executer.thread = "test")
             => executer'.thread \in {"test", "done"}
       /\ (executer.stopped /\ executer.thread = "pass")
             => executer'.thread \in {"pass", "sleep"}]_vars

\* C39 witness: stop() was signalled while the thread was inside its second
\* pass, and the network was stopped after the thread had ended.
C39_Witness ==
    /\ executer.main = "net_stopped"
    /\ executer.thread = "done"
    /\ executer.at_signal = "pass"
    /\ executer.passes = 2

====
